---- MODULE Spec2Model ----
(***************************************************************************)
(* Model of main.py: the polling loop that reads Nitter RSS feeds, forwards *)
(* new tweets to Discord webhooks and keeps a per-account ledger of the     *)
(* tweet ids already posted.                                                *)
(*                                                                          *)
(* Conventions.  A tweet id is an integer; EmptyId (0) stands for the empty *)
(* string "".  Python's None is NoneVal for integers and "None" for         *)
(* strings.  A text file is the sequence of its lines (text.split("\n")),   *)
(* so the empty text is the one-line text <<EmptyId>>.                      *)
(***************************************************************************)
EXTENDS Integers, Sequences, FiniteSets

\* ---------------------------------------------------------------- bounds
\* how many ids short of full the ledger file of the first account can be at
\* start-up
Headroom == 2
\* number of distinct posts an upstream timeline can hold
MaxPosts == 4
\* the delivery counter saturates here
MaxCount == 2
\* how many more ids than LedgerCap a set handed to save_last_tweets can hold
MaxExtra == 2
\* how many items a feed document handed to the extraction can hold
MaxItems == 3

\* ------------------------------------------------------ program constants
LedgerCap == 50
PreLoaded == LedgerCap - Headroom
max_tweets == 3
Delivered == 204
StatusCodes == {204, 429}
EmptyId == 0
NoneVal == -1
TransportError == -2

Ids == 0..(PreLoaded + MaxPosts)

Range(s) == {s[i] : i \in 1..Len(s)}
Min(a, b) == IF a < b THEN a ELSE b
Max(a, b) == IF a > b THEN a ELSE b

\* ------------------------------------------------------------ the ledger
NoFile == [exists |-> FALSE, lines |-> <<>>]
FileOf(lines) == [exists |-> TRUE, lines |-> lines]

\* "\n".join(l): the lines of the text written; joining nothing gives the
\* empty text, which has one (empty) line
Join(l) == IF l = <<>> THEN <<EmptyId>> ELSE l

RECURSIVE LStrip(_)
LStrip(t) == IF t # <<>> /\ Head(t) = EmptyId THEN LStrip(Tail(t)) ELSE t

RECURSIVE RStrip(_)
RStrip(t) ==
    IF t # <<>> /\ t[Len(t)] = EmptyId THEN RStrip(SubSeq(t, 1, Len(t) - 1)) ELSE t

\* text.strip().split("\n"): leading and trailing empty lines go (ids hold
\* no white space); what is left, even the empty text, splits into >= 1 line
StripSplit(t) == Join(RStrip(LStrip(t)))

load_last_tweets(f) == IF f.exists THEN Range(StripSplit(f.lines)) ELSE {}

\* the ids of S other than the empty one, ascending
Ascending(S) ==
    LET all == [i \in 1..(LedgerCap + MaxExtra + MaxPosts) |-> i]
        In(x) == x \in S
    IN SelectSeq(all, In)

\* lists holding exactly the ids of S: the empty id first, or second when S
\* has two other ids; the others ascend
Orders(S) ==
    LET rest == Ascending(S \ {EmptyId})
    IN IF EmptyId \notin S THEN {rest}
       ELSE {<<EmptyId>> \o rest}
            \cup (IF Len(rest) >= 2
                  THEN {<<rest[1], EmptyId>> \o Tail(rest)} ELSE {})

\* the subsets of C that have k members
RECURSIVE Choose(_, _)
Choose(C, k) ==
    IF k <= 0 THEN {{}}
    ELSE IF Cardinality(C) < k THEN {}
    ELSE LET x == CHOOSE v \in C : \A w \in C : v <= w
         IN {c \cup {x} : c \in Choose(C \ {x}, k - 1)} \cup Choose(C \ {x}, k)

\* the sets that extend head by k more members of S
Extend(S, head, k) == {head \cup c : c \in Choose(S \ head, k)}

\* list(tweet_ids) of a set: the ids in the set's iteration order, which is
\* not the order of insertion.  head holds the ids that earlier slices of
\* this set object have shown to come first; an insertion moves no other id,
\* so they still come first, followed by whichever ids the order puts next.
\* Only the n - cap first ids and the place of the empty id are observable
\* (load_last_tweets builds a set from the lines), so the other ids are
\* listed ascending.  Each outcome is [list, head], head the first n - cap.
ListOfSet(tweet_ids, head, cap) ==
    LET n == Cardinality(tweet_ids)
        old == head \cap tweet_ids
        heads == Extend(tweet_ids, old, Max(n - cap, 0) - Cardinality(old))
    IN UNION {{[list |-> Ascending(h \ {EmptyId})
                          \o (IF EmptyId \in h THEN <<EmptyId>> ELSE <<>>) \o l,
                head |-> h] : l \in Orders(tweet_ids \ h)} : h \in heads}

\* l[-n:]
LastN(l, n) == SubSeq(l, Max(Len(l) - n, 0) + 1, Len(l))

\* a slice that keeps one id too many
SliceOffByOne(l) == LastN(l, LedgerCap + 1)

\* list(tweet_ids)[-50:]
Slice(l) == LastN(l, LedgerCap)

\* save_last_tweets(username, tweet_ids): the file written, and what the
\* slice has shown of the set's order
save_last_tweets(tweet_ids, head) ==
    {[file |-> FileOf(Join(Slice(o.list))), head |-> o.head]
        : o \in ListOfSet(tweet_ids, head, LedgerCap)}

\* --------------------------------------------------- endpoint selection
NITTER_INSTANCES ==
    <<"nitter.poast.org", "nitter.privacydev.net", "nitter.42l.fr", "nitter.cz">>

\* what one probe of an instance can answer: status 200 with an XML body,
\* status 200 with another body, another status, or a transport error
ProbeResults == {"xml_200", "html_200", "status_503", "transport"}

\* a probe accepted on its status alone
AcceptedOnStatus(answer) == answer \in {"xml_200", "html_200"}

\* the probe is accepted: line 40
Accepted(answer) == answer = "xml_200"

\* the loop of get_working_nitter_instance from instance i on; probed is the
\* list of the instances contacted so far
RECURSIVE ProbeFrom(_, _, _)
ProbeFrom(answers, i, probed) ==
    IF i > Len(NITTER_INSTANCES) THEN [instance |-> "None", probed |-> probed]
    ELSE IF Accepted(answers[i])
         THEN [instance |-> NITTER_INSTANCES[i],
               probed |-> Append(probed, NITTER_INSTANCES[i])]
         ELSE ProbeFrom(answers, i + 1, Append(probed, NITTER_INSTANCES[i]))

get_working_nitter_instance(answers) == ProbeFrom(answers, 1, <<>>)

\* -------------------------------------------------------- media resolver
\* what the fetch of a tweet page can answer: the page, status 429, another
\* error status, or a transport error
PageResults == {"page", "http_429", "http_404", "transport"}

\* the og:image of a fetched page, if it has one with an absolute address
OgImage(page) == IF page = "og" THEN "og_img" ELSE "None"

\* the loop of retry_media_extraction from instance i on
RECURSIVE RetryFrom(_, _, _)
RetryFrom(page, answers, i) ==
    IF i > Len(NITTER_INSTANCES) THEN "None"
    ELSE IF answers[i] = "page" /\ OgImage(page) # "None" THEN OgImage(page)
         ELSE RetryFrom(page, answers, i + 1)

retry_media_extraction(page, answers) == RetryFrom(page, answers, 1)

\* net.first is the answer to the fetch of the tweet page, net.retry[i] the
\* answer of instance i to the retry
extract_media_from_tweet(page, net) ==
    IF net.first = "page" THEN OgImage(page)
    ELSE IF net.first = "http_429" THEN retry_media_extraction(page, net.retry)
    ELSE "None"

\* What a description can be: "None" (an empty element), "text" (markup
\* with no <img>), or markup whose first <img> has the src
\*   "img"                 https://pbs.twimg.com/media/a.jpg
\*   "nitter_img"          https://nitter.poast.org/pic/media%2Fa.jpg
\*   "relative_img"        /pic/media%2Fa.jpg
\*   "offsite_nitter_img"  https://cdn.example.org/nitter/a.jpg
Descriptions ==
    {"None", "text", "img", "nitter_img", "relative_img", "offsite_nitter_img"}

\* line 111-114: the description is not empty and holds an <img>
HasImg(description) ==
    description \in {"img", "nitter_img", "relative_img", "offsite_nitter_img"}

\* img_url.startswith("http")
StartsWithHttp(description) ==
    description \in {"img", "nitter_img", "offsite_nitter_img"}

\* "nitter" in img_url: the letters, anywhere in the address
ContainsNitter(description) ==
    description \in {"nitter_img", "offsite_nitter_img"}

\* lines 111-116: the image of the description is taken
TakesImg(description) ==
    HasImg(description) /\ StartsWithHttp(description)
        /\ ~ContainsNitter(description)

extract_image_from_description(description, page, net) ==
    IF TakesImg(description) THEN "rss_img"
    ELSE extract_media_from_tweet(page, net)

\* tweet_link.replace(NITTER_INSTANCES[0], instance) for the i-th instance,
\* as the number of the instance the address then names: host is the number
\* of the instance the tweet's link names
AlternateHost(host, i) == IF host = 1 THEN i ELSE host

\* ------------------------------------------------------------- the feed
\* An item of the feed: link.present says whether it has a <link>, of text
\* .../status/<status>, with a trailing "/" when link.slash; description and
\* pubDate are "<missing>" when the item has no such element; page is what
\* the tweet's own page holds ("og": an og:image, "plain": none).
Item(present, st, slash, description, pubDate, page) ==
    [link |-> [present |-> present, status |-> st, slash |-> slash],
     description |-> description, pubDate |-> pubDate, page |-> page]

\* tweet_link.split("/")[-1]
LastSegment(link) == IF link.slash THEN EmptyId ELSE link.status

\* the body of the loop over items, lines 147-153, from item i on
RECURSIVE ExtractFrom(_, _, _, _)
ExtractFrom(items, nets, i, tweets) ==
    IF i > Len(items) THEN [raised |-> "None", tweets |-> tweets]
    ELSE LET item == items[i] IN
         IF ~item.link.present \/ item.description = "<missing>"
         THEN [raised |-> "AttributeError", tweets |-> <<>>]
         ELSE ExtractFrom(items, nets, i + 1, Append(tweets,
                [tweet_id |-> LastSegment(item.link),
                 tweet_link |-> item.link,
                 tweet_description |-> item.description,
                 tweet_image |-> extract_image_from_description(
                                     item.description, item.page, nets[i]),
                 tweet_timestamp |-> IF item.pubDate = "<missing>" THEN "None"
                                     ELSE item.pubDate]))

\* what the retrieval of the feed can answer: a feed document, status 200
\* with a body that is no XML, an error status, or a transport error
FeedResults == {"xml_200", "html_200", "status_503", "transport"}

\* items[:max_tweets]
FirstN(items, n) == SubSeq(items, 1, Min(Len(items), n))

\* env.probe: the answers to the probes; env.feed: the answer to the
\* retrieval; env.items: the items of the document; env.nets[i]: the
\* answers to the page fetches for item i
\* lines 142-144: what requests.get, raise_for_status and
\* ElementTree.fromstring raise on the answer to the retrieval
RetrievalRaises(feed) ==
    IF feed = "transport" THEN "ConnectionError"
    ELSE IF feed = "status_503" THEN "HTTPError"
    ELSE IF feed = "html_200" THEN "ParseError"
    ELSE "None"

\* only the exceptions of the requests library are caught
CaughtRequestOnly(e) == e \in {"ConnectionError", "HTTPError"}

\* lines 155-158: the exceptions the try of get_latest_tweets catches
Caught(e) == e \in {"ConnectionError", "HTTPError", "ParseError"}

get_latest_tweets(env) ==
    IF get_working_nitter_instance(env.probe).instance = "None"
    THEN [raised |-> "None", tweets |-> <<>>]
    ELSE LET e == RetrievalRaises(env.feed)
             got == IF e # "None" THEN [raised |-> e, tweets |-> <<>>]
                    ELSE ExtractFrom(FirstN(env.items, max_tweets), env.nets, 1, <<>>)
         IN IF Caught(got.raised) THEN [raised |-> "None", tweets |-> got.tweets]
            ELSE got

\* ---------------------------------------------------------- the notifier
\* net.img: the answer to the GET of the image (a status or TransportError);
\* net.post: the answer to the POST to the webhook.  The result: the
\* exception raised ("None" if none), the value returned (NoneVal for None),
\* whether the embed carries the image, whether the POST was made.
\* the image is taken unless the GET fails in transport
VerifiedUnlessUnreachable(answer) == answer # TransportError

\* lines 180-186: the GET of the image raised nothing that is not caught and
\* was answered by status 200 (the address starts with "http", as every
\* address the media resolver returns does)
Verified(answer) == answer = 200

send_to_discord(webhook_set, tweet, net) ==
    IF ~webhook_set
    THEN [raised |-> "None", status |-> NoneVal, image |-> FALSE, posted |-> FALSE]
    ELSE LET image == tweet.tweet_image # "None" /\ Verified(net.img) IN
         IF tweet.tweet_timestamp = "garbage"
         THEN [raised |-> "ValueError", status |-> NoneVal,
               image |-> image, posted |-> FALSE]
         ELSE IF net.post = TransportError
         THEN [raised |-> "ConnectionError", status |-> NoneVal,
               image |-> image, posted |-> TRUE]
         ELSE [raised |-> "None", status |-> net.post,
               image |-> image, posted |-> TRUE]

\* -------------------------------------------------------- configuration
\* lines 12-18: the entries of the dict literal, in the order written; the
\* key of an entry is os.getenv("WEBHOOK_<var>")
Entries ==
    <<[var |-> 1, usernames |-> <<"RoyaleAPI", "ClashRoyale">>],
      [var |-> 2, usernames |->
          <<"PokemonGoApp", "LeekDuck", "PokemonGOHubNet", "PokemonSleep">>],
      [var |-> 3, usernames |-> <<"FortniteStatus", "FNCompetitive", "HYPEX">>],
      [var |-> 4, usernames |-> <<"survivetheark", "ARKAscendedNews">>],
      [var |-> 5, usernames |-> <<"NWGameStatus", "playnewworld">>]>>

Accounts == UNION {Range(Entries[k].usernames) : k \in DOMAIN Entries}

\* The dict the literal builds, as the list of its items: getenv[k] is the
\* value of WEBHOOK_<k>, a URL (1, 2, ..) or NoneVal when the variable is not
\* set.  Entries whose keys are equal are one item: it has the place of the
\* first of them and the usernames of the last.
DictOf(getenv) ==
    LET IsFirst(k) == \A j \in 1..(k - 1) : getenv[Entries[j].var] # getenv[Entries[k].var]
        first == SelectSeq([k \in DOMAIN Entries |-> k], IsFirst)
        Last(k) == CHOOSE j \in DOMAIN Entries :
                      /\ getenv[Entries[j].var] = getenv[Entries[k].var]
                      /\ \A i \in (j + 1)..Len(Entries) :
                            getenv[Entries[i].var] # getenv[Entries[k].var]
    IN [n \in DOMAIN first |->
          [url |-> getenv[Entries[first[n]].var],
           usernames |-> Entries[Last(first[n])].usernames]]

\* ------------------------------------------------------- the environment
\* the k-th new post of an account, k = 1 the oldest
NewId(k) == PreLoaded + k
Post(k) == Item(TRUE, NewId(k), FALSE, "text", "rfc822", "plain")

\* the posts k, k-1, .., 1, newest first
RECURSIVE Newest(_)
Newest(k) == IF k = 0 THEN <<>> ELSE <<Post(k)>> \o Newest(k - 1)

\* what an account's timeline can hold, newest first: only well-formed
\* posts, or a post with one defect among well-formed ones, or a post that
\* the feed lists twice
Timelines ==
    {Newest(k) : k \in {0, max_tweets, MaxPosts}}
    \cup {<<Post(2), Item(TRUE, NewId(1), TRUE, "text", "rfc822", "plain")>>,
          <<Post(3), Item(TRUE, NewId(2), FALSE, "text", "garbage", "plain"),
            Item(FALSE, 0, FALSE, "text", "rfc822", "plain")>>,
          <<Post(2), Item(TRUE, NewId(1), FALSE, "text", "garbage", "plain")>>,
          <<Item(TRUE, NewId(1), FALSE, "<missing>", "rfc822", "plain")>>,
          <<Item(TRUE, NewId(2), FALSE, "img", "<missing>", "plain"),
            Item(TRUE, NewId(1), FALSE, "text", "rfc822", "og")>>,
          <<Post(2), Post(2), Post(1)>>}

\* the ledger file of an account at start-up: none, or PreLoaded ids
PreLedger == FileOf([i \in 1..PreLoaded |-> i])
\* The accounts at start-up.  The first username of the first entry has any
\* of the timelines, and a ledger or none; the first username of the second
\* entry has one post upstream where the first has no ledger; the other
\* usernames have no post upstream and no ledger.
FirstAccount == Entries[1].usernames[1]
SecondAccount == Entries[2].usernames[1]
StartUps ==
    {[timeline |-> [a \in Accounts |->
                       IF a = FirstAccount THEN t
                       ELSE IF a = SecondAccount /\ f = NoFile THEN Newest(1)
                       ELSE Newest(0)],
      file |-> [a \in Accounts |-> IF a = FirstAccount THEN f ELSE NoFile]]
        : t \in Timelines, f \in {NoFile, PreLedger}}

\* the values of WEBHOOK_1 .. WEBHOOK_5: the first two set to two URLs, the
\* first not set, the first two set to the same URL, or all five set
NotSet == [k \in DOMAIN Entries |-> NoneVal]
Environs ==
    {[NotSet EXCEPT ![1] = 1, ![2] = 2],
     [NotSet EXCEPT ![2] = 1],
     [NotSet EXCEPT ![1] = 1, ![2] = 1],
     [k \in DOMAIN Entries |-> k]}

\* the answers of the network during one get_latest_tweets of the loop
ProbeAnswers == [1..Len(NITTER_INSTANCES) -> ProbeResults]
SweepProbes ==
    {[i \in 1..Len(NITTER_INSTANCES) |-> "xml_200"],
     [i \in 1..Len(NITTER_INSTANCES) |-> IF i = 1 THEN "transport" ELSE "xml_200"],
     [i \in 1..Len(NITTER_INSTANCES) |-> "transport"]}
PageNets ==
    {[first |-> "page", retry |-> [i \in 1..Len(NITTER_INSTANCES) |-> "page"]],
     [first |-> "http_429", retry |-> [i \in 1..Len(NITTER_INSTANCES) |-> "page"]],
     [first |-> "transport", retry |-> [i \in 1..Len(NITTER_INSTANCES) |-> "page"]]}
\* (the answer to a page fetch is left out where no page is fetched or the
\* page holds no image)
FetchEnvs(items) ==
    {env \in [probe : SweepProbes, feed : FeedResults, items : {items},
              nets : [1..max_tweets -> PageNets]] :
        \A i \in 1..max_tweets :
            (i > Len(items) \/ TakesImg(items[i].description) \/ items[i].page # "og")
                => env.nets[i].first = "page"}
\* (the answer to the GET of the image is left out where there is no image)
SendNets(t) ==
    {net \in [img : {200, 404}, post : StatusCodes \cup {TransportError}] :
        t.tweet_image = "None" => net.img = 200}

\* ------------------------------------------------------------- the state
VARIABLES
    WEBHOOKS,        \* the dict of lines 12-18, as the list of its items
    timeline,        \* the posts of each account upstream, newest first
    file,            \* last_tweets/<username>.txt of each account
    pc,              \* where main() is
    wi, ui,          \* the webhook and the username the loops are at
    last_tweet_ids,  \* main's set of ids
    head,            \* the ids shown to come first in that set's order
    tweets,          \* the list get_latest_tweets returned
    idx,             \* the position of the inner loop in reversed(tweets)
    status,          \* the last value send_to_discord returned
    crash,           \* the exception that ended main(), "None" if none
    calls,           \* the ids passed to send_to_discord for this username
    delivered,       \* how often an id of an account got status 204 (or
                     \* was in its ledger at start-up), for the ids that did
    recorded,        \* the ids of each account in the order of recording
    failed,          \* the ids whose delivery failed, per account, last time
    pending,         \* failed[username] when this username's turn began
    turn,            \* the ids loaded when this username's turn began, and
                     \* the ids that got status 204 in it
    input,           \* the arguments of a function applied on its own
    output,          \* what it returned
    done,            \* whether it has been applied
    at,              \* where a function applied step by step is
    ri,              \* the position of its loop over NITTER_INSTANCES
    events           \* the sleeps and the GETs it has made, in order

mainvars == <<WEBHOOKS, timeline, file, pc, wi, ui, last_tweet_ids, head,
              tweets, idx, status, crash, calls, delivered, recorded, failed,
              pending, turn>>
fnvars == <<input, output, done, at, ri, events>>
vars == <<mainvars, fnvars>>

\* the list as it is, not reversed
reversedKeepsOrder(l) == l

\* reversed(tweets)
reversed(l) == [i \in 1..Len(l) |-> l[Len(l) + 1 - i]]

webhook_url == WEBHOOKS[wi].url
username == WEBHOOKS[wi].usernames[ui]
tweet == reversed(tweets)[idx]

InLoop == pc = "for_tweet" /\ idx <= Len(tweets)

\* no username's turn is under way
NoTurn == [loaded |-> {}, posted |-> {}]

Init ==
    /\ \E getenv \in Environs : WEBHOOKS = DictOf(getenv)
    /\ \E start \in StartUps : timeline = start.timeline /\ file = start.file
    /\ pc = "for_webhook"
    /\ wi = 1
    /\ ui = 1
    /\ last_tweet_ids = {}
    /\ head = {}
    /\ tweets = <<>>
    /\ idx = 1
    /\ status = NoneVal
    /\ crash = "None"
    /\ calls = <<>>
    /\ delivered = [a \in Accounts |->
                      [i \in load_last_tweets(file[a]) |-> 1]]
    /\ recorded = [a \in Accounts |-> IF file[a].exists THEN file[a].lines ELSE <<>>]
    /\ failed = [a \in Accounts |-> {}]
    /\ pending = {}
    /\ turn = NoTurn
    /\ input = <<>> /\ output = <<>> /\ done = FALSE
    /\ at = "start" /\ ri = 1 /\ events = <<>>

\* ------------------------------------------------------------- main()
\* line 222-223: a webhook whose URL is not set is passed over
SkipWebhook ==
    /\ pc = "for_webhook" /\ wi <= Len(WEBHOOKS) /\ webhook_url = NoneVal
    /\ wi' = wi + 1
    /\ UNCHANGED <<fnvars, WEBHOOKS, timeline, file, pc, ui, last_tweet_ids, head,
                   tweets, idx, status, crash, calls, delivered, recorded,
                   failed, pending, turn>>

\* line 224: the loop over the usernames of a webhook begins
EnterWebhook ==
    /\ pc = "for_webhook" /\ wi <= Len(WEBHOOKS) /\ webhook_url # NoneVal
    /\ pc' = "for_username" /\ ui' = 1
    /\ UNCHANGED <<fnvars, WEBHOOKS, timeline, file, wi, last_tweet_ids, head, tweets,
                   idx, status, crash, calls, delivered, recorded, failed, pending, turn>>

\* line 239: all webhooks done, time.sleep(60), and the next sweep begins
Sleep ==
    /\ pc = "for_webhook" /\ wi > Len(WEBHOOKS)
    /\ wi' = 1
    /\ UNCHANGED <<fnvars, WEBHOOKS, timeline, file, pc, ui, last_tweet_ids, head,
                   tweets, idx, status, crash, calls, delivered, recorded,
                   failed, pending, turn>>

\* line 224: the usernames of the webhook are done
EndUsernames ==
    /\ pc = "for_username" /\ ui > Len(WEBHOOKS[wi].usernames)
    /\ pc' = "for_webhook" /\ wi' = wi + 1
    /\ UNCHANGED <<fnvars, WEBHOOKS, timeline, file, ui, last_tweet_ids, head, tweets,
                   idx, status, crash, calls, delivered, recorded, failed, pending, turn>>

\* lines 225-226: the ledger is loaded and the feed fetched
LoadAndFetch ==
    /\ pc = "for_username" /\ ui <= Len(WEBHOOKS[wi].usernames)
    /\ \E env \in FetchEnvs(timeline[username]) :
         LET got == get_latest_tweets(env) IN
         /\ got.raised = "None"
         /\ tweets' = got.tweets
    /\ last_tweet_ids' = load_last_tweets(file[username])
    /\ head' = {}
    /\ idx' = 1
    /\ pc' = "for_tweet"
    /\ calls' = <<>>
    /\ pending' = failed[username]
    /\ turn' = [loaded |-> load_last_tweets(file[username]), posted |-> {}]
    /\ failed' = [failed EXCEPT ![username] = {}]
    /\ UNCHANGED <<fnvars, WEBHOOKS, timeline, file, wi, ui, status, crash, delivered,
                   recorded>>

\* line 226: get_latest_tweets raises, and main() with it
FetchRaises ==
    /\ pc = "for_username" /\ ui <= Len(WEBHOOKS[wi].usernames)
    /\ \E env \in FetchEnvs(timeline[username]) :
         LET got == get_latest_tweets(env) IN
         /\ got.raised # "None"
         /\ crash' = got.raised
    /\ last_tweet_ids' = load_last_tweets(file[username])
    /\ head' = {}
    /\ pc' = "crashed"
    /\ calls' = <<>>
    /\ pending' = failed[username]
    /\ turn' = [loaded |-> load_last_tweets(file[username]), posted |-> {}]
    /\ failed' = [failed EXCEPT ![username] = {}]
    /\ UNCHANGED <<fnvars, WEBHOOKS, timeline, file, wi, ui, tweets, idx, status,
                   delivered, recorded>>

\* line 227: the tweets of the username are done; the locals of this turn
\* are dead from here on (each is assigned anew before it is read again)
EndTweets ==
    /\ pc = "for_tweet" /\ idx > Len(tweets)
    /\ pc' = "for_username" /\ ui' = ui + 1
    /\ last_tweet_ids' = {} /\ head' = {} /\ tweets' = <<>> /\ idx' = 1
    /\ status' = NoneVal /\ calls' = <<>> /\ pending' = {} /\ turn' = NoTurn
    /\ UNCHANGED <<fnvars, WEBHOOKS, timeline, file, wi, crash, delivered, recorded,
                   failed>>

\* no id counts as seen
NeverDuplicate(tweet_id, ids) == FALSE

\* line 228
IsDuplicate(tweet_id, ids) == tweet_id # EmptyId /\ tweet_id \in ids

\* lines 228-230
SkipDuplicate ==
    /\ InLoop /\ IsDuplicate(tweet.tweet_id, last_tweet_ids)
    /\ idx' = idx + 1
    /\ UNCHANGED <<fnvars, WEBHOOKS, timeline, file, pc, wi, ui, last_tweet_ids, head,
                   tweets, status, crash, calls, delivered, recorded, failed,
                   pending, turn>>

\* any status returned counts as delivered
RecordsAnyStatus(st) == st # NoneVal

\* line 233
IsDelivered(st) == st = Delivered

\* lines 232-236: send_to_discord returns 204; the id is added and saved
Deliver ==
    /\ InLoop /\ ~IsDuplicate(tweet.tweet_id, last_tweet_ids)
    /\ \E net \in SendNets(tweet) :
         LET sent == send_to_discord(webhook_url # NoneVal, tweet, net) IN
         /\ sent.raised = "None" /\ IsDelivered(sent.status)
         /\ status' = sent.status
    /\ last_tweet_ids' = last_tweet_ids \cup {tweet.tweet_id}
    /\ \E saved \in save_last_tweets(last_tweet_ids', head) :
         /\ file' = [file EXCEPT ![username] = saved.file]
         /\ head' = saved.head
    /\ idx' = idx + 1
    /\ calls' = Append(calls, tweet.tweet_id)
    /\ delivered' = [delivered EXCEPT ![username] =
                       [i \in DOMAIN @ \cup {tweet.tweet_id} |->
                           IF i # tweet.tweet_id THEN @[i]
                           ELSE IF i \in DOMAIN @ THEN Min(@[i] + 1, MaxCount)
                           ELSE 1]]
    /\ recorded' = [recorded EXCEPT ![username] =
                      Append(SelectSeq(@, LAMBDA x : x # tweet.tweet_id), tweet.tweet_id)]
    /\ turn' = [turn EXCEPT !.posted = @ \cup {tweet.tweet_id}]
    /\ UNCHANGED <<fnvars, WEBHOOKS, timeline, pc, wi, ui, tweets, crash, failed, pending>>

\* lines 232-238: send_to_discord returns another value; nothing is recorded
NotDelivered ==
    /\ InLoop /\ ~IsDuplicate(tweet.tweet_id, last_tweet_ids)
    /\ \E net \in SendNets(tweet) :
         LET sent == send_to_discord(webhook_url # NoneVal, tweet, net) IN
         /\ sent.raised = "None" /\ ~IsDelivered(sent.status)
         /\ status' = sent.status
    /\ idx' = idx + 1
    /\ calls' = Append(calls, tweet.tweet_id)
    /\ failed' = [failed EXCEPT ![username] = @ \cup {tweet.tweet_id}]
    /\ UNCHANGED <<fnvars, WEBHOOKS, timeline, file, pc, wi, ui, last_tweet_ids, head,
                   tweets, crash, delivered, recorded, pending, turn>>

\* line 232: send_to_discord raises, and main() with it
SendRaises ==
    /\ InLoop /\ ~IsDuplicate(tweet.tweet_id, last_tweet_ids)
    /\ \E net \in SendNets(tweet) :
         LET sent == send_to_discord(webhook_url # NoneVal, tweet, net) IN
         /\ sent.raised # "None"
         /\ crash' = sent.raised
    /\ pc' = "crashed"
    /\ calls' = Append(calls, tweet.tweet_id)
    /\ failed' = [failed EXCEPT ![username] = @ \cup {tweet.tweet_id}]
    /\ UNCHANGED <<fnvars, WEBHOOKS, timeline, file, wi, ui, last_tweet_ids, head,
                   tweets, idx, status, delivered, recorded, pending, turn>>

Next ==
    \/ SkipWebhook
    \/ EnterWebhook
    \/ Sleep
    \/ EndUsernames
    \/ LoadAndFetch
    \/ FetchRaises
    \/ EndTweets
    \/ SkipDuplicate
    \/ Deliver
    \/ NotDelivered
    \/ SendRaises

Spec == Init /\ [][Next]_vars

\* ------------------------------------------- functions applied on their own
\* main() at rest
Idle ==
    /\ WEBHOOKS = DictOf(NotSet)
    /\ timeline = [a \in Accounts |-> <<>>]
    /\ file = [a \in Accounts |-> NoFile]
    /\ pc = "idle" /\ wi = 1 /\ ui = 1
    /\ last_tweet_ids = {} /\ head = {} /\ tweets = <<>> /\ idx = 1
    /\ status = NoneVal /\ crash = "None" /\ calls = <<>>
    /\ delivered = [a \in Accounts |-> [i \in {} |-> 0]]
    /\ recorded = [a \in Accounts |-> <<>>]
    /\ failed = [a \in Accounts |-> {}]
    /\ pending = {}
    /\ turn = NoTurn

\* no function is applied step by step
NotStepped == at = "start" /\ ri = 1 /\ events = <<>>

\* get_working_nitter_instance, for every answer of every instance
InitSelect == Idle /\ NotStepped /\ input \in ProbeAnswers /\ output = <<>> /\ done = FALSE

Select ==
    /\ ~done
    /\ output' = get_working_nitter_instance(input)
    /\ done' = TRUE
    /\ UNCHANGED <<mainvars, input, at, ri, events>>

NextSelect == Select

SpecSelect == InitSelect /\ [][NextSelect]_vars

\* save_last_tweets, for sets of up to LedgerCap + MaxExtra ids, and sets of
\* one id less that hold the empty id, of a set object not sliced before
FlushSets ==
    {1..n : n \in 0..(LedgerCap + MaxExtra)}
    \cup {0..n : n \in 0..(LedgerCap + MaxExtra - 2)}

InitFlush == Idle /\ NotStepped /\ input \in FlushSets /\ output = <<>> /\ done = FALSE

Flush ==
    /\ ~done
    /\ \E saved \in save_last_tweets(input, {}) : output' = saved.file
    /\ done' = TRUE
    /\ UNCHANGED <<mainvars, input, at, ri, events>>

NextFlush == Flush

SpecFlush == InitFlush /\ [][NextFlush]_vars

\* the extraction of get_latest_tweets (lines 144-153), for documents of up
\* to MaxItems items; item i of a document is about post i
ItemsAbout(k) ==
    {Post(k),
     Item(TRUE, NewId(k), FALSE, "text", "garbage", "plain"),
     Item(TRUE, NewId(k), FALSE, "text", "<missing>", "plain"),
     Item(TRUE, NewId(k), TRUE, "text", "rfc822", "plain"),
     Item(TRUE, NewId(k), FALSE, "<missing>", "rfc822", "plain"),
     Item(FALSE, 0, FALSE, "text", "rfc822", "plain")}

Documents ==
    UNION {{d \in [1..n -> UNION {ItemsAbout(k) : k \in 1..n}] :
               \A i \in 1..n : d[i] \in ItemsAbout(i)} : n \in 0..MaxItems}

PlainNets == [i \in 1..MaxItems |-> CHOOSE net \in PageNets : net.first = "page"]

\* lines 144-153 on the items of a parsed document
extract(items) == ExtractFrom(FirstN(items, max_tweets), PlainNets, 1, <<>>)

InitExtract == Idle /\ NotStepped /\ input \in Documents /\ output = <<>> /\ done = FALSE

Extract ==
    /\ ~done
    /\ output' = extract(input)
    /\ done' = TRUE
    /\ UNCHANGED <<mainvars, input, at, ri, events>>

NextExtract == Extract

SpecExtract == InitExtract /\ [][NextExtract]_vars

\* extract_image_from_description, step by step, for every description,
\* every instance the tweet's link can name and every answer of the network.
\* input.net.first answers the GET of line 58, input.net.retry[i] the GET of
\* line 87 in the i-th round of the loop.
RetryResults == {"page", "http_429", "transport"}

MediaInputs ==
    [description : Descriptions,
     host : 1..Len(NITTER_INSTANCES),
     page : {"og", "plain"},
     net : [first : PageResults,
            retry : [1..Len(NITTER_INSTANCES) -> RetryResults]]]

SleepEvent == [op |-> "sleep", host |-> 0]
GetEvent(host) == [op |-> "get", host |-> host]

InitMedia ==
    /\ Idle /\ input \in MediaInputs /\ output = "None" /\ done = FALSE
    /\ at = "description" /\ ri = 1 /\ events = <<>>

\* lines 111-118: the image of the description is returned
DescriptionImage ==
    /\ at = "description" /\ TakesImg(input.description)
    /\ output' = "rss_img" /\ done' = TRUE /\ at' = "returned"
    /\ UNCHANGED <<mainvars, input, ri, events>>

\* lines 119-121: extract_media_from_tweet is called
Fallback ==
    /\ at = "description" /\ ~TakesImg(input.description)
    /\ at' = "sleep"
    /\ UNCHANGED <<mainvars, input, output, done, ri, events>>

\* line 55: time.sleep(random.uniform(1, 3))
Delay ==
    /\ at = "sleep"
    /\ events' = Append(events, SleepEvent)
    /\ at' = "get"
    /\ UNCHANGED <<mainvars, input, output, done, ri>>

\* lines 58-68 and 75-78: the GET of the tweet's page, answered by the page
\* or by a failure other than status 429
FetchPage ==
    /\ at = "get" /\ input.net.first # "http_429"
    /\ events' = Append(events, GetEvent(input.host))
    /\ output' = IF input.net.first = "page" THEN OgImage(input.page) ELSE "None"
    /\ done' = TRUE /\ at' = "returned"
    /\ UNCHANGED <<mainvars, input, ri>>

\* lines 58-59 and 70-73: the GET is answered by status 429, and
\* retry_media_extraction is called
RateLimited ==
    /\ at = "get" /\ input.net.first = "http_429"
    /\ events' = Append(events, GetEvent(input.host))
    /\ at' = "retry" /\ ri' = 1
    /\ UNCHANGED <<mainvars, input, output, done>>

\* a round answered by status 429 starts the loop again
RestartWhenLimited(i, answer) == IF answer = "http_429" THEN 1 ELSE i + 1

\* the round after round i of the loop of line 82, whatever the answer
NextRound(i, answer) == i + 1

\* lines 82-97: one round of the loop, which returns the image it finds
RetryFound ==
    /\ at = "retry" /\ ri <= Len(NITTER_INSTANCES)
    /\ input.net.retry[ri] = "page" /\ OgImage(input.page) # "None"
    /\ events' = Append(events, GetEvent(AlternateHost(input.host, ri)))
    /\ output' = OgImage(input.page) /\ done' = TRUE /\ at' = "returned"
    /\ UNCHANGED <<mainvars, input, ri>>

\* lines 82-100: one round of the loop, which finds no image or fails
RetryNext ==
    /\ at = "retry" /\ ri <= Len(NITTER_INSTANCES)
    /\ ~(input.net.retry[ri] = "page" /\ OgImage(input.page) # "None")
    /\ events' = Append(events, GetEvent(AlternateHost(input.host, ri)))
    /\ ri' = NextRound(ri, input.net.retry[ri])
    /\ UNCHANGED <<mainvars, input, output, done, at>>

\* lines 102-103: every instance has been tried
RetryExhausted ==
    /\ at = "retry" /\ ri > Len(NITTER_INSTANCES)
    /\ output' = "None" /\ done' = TRUE /\ at' = "returned"
    /\ UNCHANGED <<mainvars, input, ri, events>>

NextMedia ==
    \/ DescriptionImage
    \/ Fallback
    \/ Delay
    \/ FetchPage
    \/ RateLimited
    \/ RetryFound
    \/ RetryNext
    \/ RetryExhausted

SpecMedia == InitMedia /\ [][NextMedia]_vars

\* the function is one sequential call: a step that can be taken is taken
SpecMediaFair == SpecMedia /\ WF_vars(NextMedia)

\* save_last_tweets, step by step, with the process dying at any point:
\* input.file is the file before the call, input.tweet_ids the set saved
\* (what was loaded from the file and one more id, as main() calls it),
\* output the file as it is on disk.
FlushInputs ==
    UNION {{[file |-> f, tweet_ids |-> load_last_tweets(f) \cup {new}]
               : new \in {EmptyId, LedgerCap + MaxExtra}}
           : f \in {FileOf([i \in 1..n |-> i]) : n \in 1..LedgerCap}}

InitCrash ==
    /\ Idle /\ input \in FlushInputs /\ output = input.file /\ done = FALSE
    /\ at = "start" /\ ri = 1 /\ events = <<>>

\* line 214: open(file_path, "w") creates the file or cuts it to nothing
OpenTruncate ==
    /\ at = "start"
    /\ output' = FileOf(<<EmptyId>>)
    /\ at' = "open"
    /\ UNCHANGED <<mainvars, input, done, ri, events>>

\* lines 213-215: the text is written and the file closed
WriteClose ==
    /\ at = "open"
    /\ \E saved \in save_last_tweets(input.tweet_ids, {}) : output' = saved.file
    /\ at' = "closed" /\ done' = TRUE
    /\ UNCHANGED <<mainvars, input, ri, events>>

\* the process is killed, or the machine stops
Crash ==
    /\ at \in {"start", "open", "closed"}
    /\ at' = "crashed"
    /\ UNCHANGED <<mainvars, input, output, done, ri, events>>

NextCrash ==
    \/ OpenTruncate
    \/ WriteClose
    \/ Crash

SpecCrash == InitCrash /\ [][NextCrash]_vars

\* get_latest_tweets, for every answer to the probes and to the retrieval
FetchInputs ==
    [probe : ProbeAnswers, feed : FeedResults,
     items : {Newest(0), Newest(1), Newest(max_tweets)}, nets : {PlainNets}]

InitFetch == Idle /\ NotStepped /\ input \in FetchInputs /\ output = <<>> /\ done = FALSE

Fetch ==
    /\ ~done
    /\ output' = get_latest_tweets(input)
    /\ done' = TRUE
    /\ UNCHANGED <<mainvars, input, at, ri, events>>

NextFetch == Fetch

SpecFetch == InitFetch /\ [][NextFetch]_vars

\* send_to_discord, for every image, timestamp and answer of the network
ImageAnswers == {200, 404, 500, TransportError}

SendInputs ==
    [webhook_set : BOOLEAN,
     tweet : [tweet_id : {NewId(1)}, tweet_link : {Post(1).link},
              tweet_description : {"text"},
              tweet_image : {"None", "rss_img", "og_img"},
              tweet_timestamp : {"None", "rfc822", "garbage"}],
     net : [img : ImageAnswers, post : StatusCodes \cup {TransportError}]]

InitSend == Idle /\ NotStepped /\ input \in SendInputs /\ output = <<>> /\ done = FALSE

Send ==
    /\ ~done
    /\ output' = send_to_discord(input.webhook_set, input.tweet, input.net)
    /\ done' = TRUE
    /\ UNCHANGED <<mainvars, input, at, ri, events>>

NextSend == Send

SpecSend == InitSend /\ [][NextSend]_vars

\* ----------------------------------------------------------- the claims
Lines(f) == IF f.exists THEN Range(f.lines) ELSE {}
AtEnd == pc = "for_tweet" /\ idx > Len(tweets)
FetchedIds == {tweets[i].tweet_id : i \in DOMAIN tweets}

\* C1: for every account and every post id, status 204 is obtained at most
\* once, whatever the sweeps, the failures and the flushes.
AtMostOnceDelivered ==
    \A a \in Accounts : \A i \in Ids :
        i \in DOMAIN delivered[a] => delivered[a][i] <= 1

\* C2: the set of ids in memory and the ledger file change only in a step in
\* which send_to_discord has just returned 204 for the current username, and
\* then by the id of the tweet sent alone; after any other value returned
\* both are as before.
RecordOnlyOnDelivered ==
    [][((file' # file) \/ (pc = "for_tweet" /\ pc' = "for_tweet"
                            /\ last_tweet_ids' # last_tweet_ids))
        => /\ status' = 204
           /\ Len(calls') = Len(calls) + 1
           /\ last_tweet_ids' = last_tweet_ids \cup {calls'[Len(calls')]}
           /\ \A a \in Accounts :
                IF a = username
                THEN Lines(file'[a]) \ Lines(file[a]) \subseteq {calls'[Len(calls')]}
                ELSE file'[a] = file[a]]_vars

\* a delivery has failed after another of this turn succeeded: the id that
\* failed is in neither the set nor the file, the other one is in both
RecordOnlyOnDeliveredWitness ==
    /\ pc = "for_tweet" /\ Len(calls) >= 2
    /\ status = 429
    /\ calls[Len(calls)] \notin last_tweet_ids
    /\ calls[Len(calls)] \notin load_last_tweets(file[username])
    /\ calls[1] \in last_tweet_ids
    /\ calls[1] \in load_last_tweets(file[username])

\* C3: when a username's turn ends, an id whose delivery failed in it is
\* not in the account's ledger, and every id whose delivery failed in the
\* account's previous turn and that the feed has returned again was passed
\* to send_to_discord again.
FailedIsReoffered ==
    AtEnd => /\ failed[username] \cap load_last_tweets(file[username]) = {}
             /\ (pending \cap FetchedIds) \subseteq Range(calls)

\* C4: the file save_last_tweets has written holds at most 50 lines, and
\* load_last_tweets reads at most 50 ids from it, whatever the size of the
\* set saved.
FlushBounded ==
    done => /\ Len(output.lines) <= 50
            /\ Cardinality(load_last_tweets(output)) <= 50

\* a set of more than 50 ids has been saved, and the file holds 50
FlushBoundedWitness ==
    /\ done
    /\ Cardinality(input) = LedgerCap + MaxExtra
    /\ Cardinality(load_last_tweets(output)) = 50

\* C5: once more than 50 ids have been recorded for an account, its ledger
\* file holds exactly the 50 recorded last.
EvictsOldestFirst ==
    \A a \in Accounts :
        Len(recorded[a]) > 50 =>
            load_last_tweets(file[a]) =
                {recorded[a][i] : i \in (Len(recorded[a]) - 49)..Len(recorded[a])}

\* the place of a tweet in the list fetched
SourcePos(id) == CHOOSE k \in DOMAIN tweets : tweets[k].tweet_id = id

\* C6: the tweets of a turn are passed to send_to_discord oldest first, that
\* is in the reverse of the order of the list fetched (a tweet the feed lists
\* twice has one place), and when the turn ends every tweet fetched that was
\* not in the set of ids has been passed.
ChronologicalOrder ==
    pc \in {"for_tweet", "crashed"} =>
        /\ \A i, j \in DOMAIN calls :
              i < j => SourcePos(calls[i]) >= SourcePos(calls[j])
        /\ AtEnd => \A k \in DOMAIN tweets :
                       \/ tweets[k].tweet_id \in Range(calls)
                       \/ tweets[k].tweet_id \in last_tweet_ids \ {EmptyId}

\* three tweets, all new, have been passed: the last of the list first
ChronologicalOrderWitness ==
    /\ AtEnd /\ Len(tweets) = 3
    /\ calls = <<tweets[3].tweet_id, tweets[2].tweet_id, tweets[1].tweet_id>>
    /\ tweets[1].tweet_id > tweets[2].tweet_id
    /\ tweets[2].tweet_id > tweets[3].tweet_id

\* C7: main() is never ended by a failure of the fetch, the extraction or
\* the media resolution (an item without link or description, a malformed
\* timestamp); only a failure of the POST to the webhook is left aside.
FetchFailureNeverAborts ==
    crash \in {"None", "ConnectionError"}

\* what the extraction is to return of each item kept: its id and timestamp
Expected(items) ==
    LET HasLink(item) == item.link.present
        kept == SelectSeq(FirstN(items, 3), HasLink)
    IN [i \in DOMAIN kept |->
          <<kept[i].link.status,
            IF kept[i].pubDate = "rfc822" THEN "rfc822" ELSE "None">>]

\* C8: from a document whose items are well-formed, or have a malformed
\* timestamp, or have no link, the extraction raises nothing and returns, in
\* order, the items that have a link, the timestamp None where it is
\* malformed or missing.
ExtractionIsolated ==
    (done /\ \A i \in DOMAIN input :
                 input[i].description # "<missing>" /\ ~input[i].link.slash)
    => /\ output.raised = "None"
       /\ [i \in DOMAIN output.tweets |->
             <<output.tweets[i].tweet_id, output.tweets[i].tweet_timestamp>>]
          = Expected(input)

\* C9: no empty id is passed to send_to_discord, held in the set of ids or
\* read from a ledger file.
NoEmptyIdForwarded ==
    /\ EmptyId \notin Range(calls)
    /\ EmptyId \notin last_tweet_ids
    /\ \A a \in Accounts : EmptyId \notin load_last_tweets(file[a])

\* C10: the instance returned is the first of the list whose probe was
\* accepted (status 200, XML body); the instances probed are those up to it,
\* in the order of the list, none after it; None is returned only when every
\* instance was probed and none accepted.
FirstAcceptedWins ==
    done =>
        LET n == Len(output.probed) IN
        /\ output.probed = SubSeq(NITTER_INSTANCES, 1, n)
        /\ \A j \in 1..(n - 1) : input[j] # "xml_200"
        /\ IF output.instance = "None"
           THEN n = Len(NITTER_INSTANCES) /\ input[n] # "xml_200"
           ELSE n >= 1 /\ output.instance = NITTER_INSTANCES[n]
                /\ input[n] = "xml_200"

\* the first instance failed in transport, the second is returned, and the
\* third, which would have been accepted too, was not probed
FirstAcceptedWinsWitness ==
    /\ done
    /\ input[1] = "transport" /\ input[2] = "xml_200" /\ input[3] = "xml_200"
    /\ output.instance = NITTER_INSTANCES[2]
    /\ output.probed = <<NITTER_INSTANCES[1], NITTER_INSTANCES[2]>>

\* the GETs among the events of the media resolver, in order
Gets == SelectSeq(events, LAMBDA e : e.op = "get")

\* C11: when the GET of the tweet's page on the instance the link names is
\* answered by status 429, no GET of the retry goes to that instance,
\* whichever instance of the list it is.
RetryAvoidsLimitedMirror ==
    \A k \in 2..Len(Gets) : Gets[k].host # input.host

\* C12: the media resolution of one tweet makes at most one GET of the page
\* plus one GET per instance of the list, whatever the answers, and it
\* returns.
MediaBounded ==
    [](Len(Gets) <= 1 + Len(NITTER_INSTANCES)) /\ <>done

\* every GET was answered by status 429: five GETs were made, and None is
\* returned
MediaBoundedWitness ==
    /\ done /\ output = "None"
    /\ input.net.first = "http_429"
    /\ \A i \in 1..Len(NITTER_INSTANCES) : input.net.retry[i] = "http_429"
    /\ Len(Gets) = 1 + Len(NITTER_INSTANCES)

\* C16: every GET of a tweet's page, the first and each of the retry, comes
\* right after a sleep: no two GETs without a sleep between them.
DelayBeforeEveryFetch ==
    \A k \in DOMAIN events :
        events[k].op = "get" => k > 1 /\ events[k - 1].op = "sleep"

\* the image of the description has an absolute address that is not on the
\* instance's own domain
AbsoluteOffMirror(description) ==
    description \in {"img", "offsite_nitter_img"}

\* C17: the page is fetched only when the description holds no image of
\* absolute address off the instance's domain; when it holds one, that image
\* is returned and no request is made; when the GET of the page fails
\* otherwise than by status 429, None is returned after that one GET.
ShortCircuitChain ==
    /\ events # <<>> => ~AbsoluteOffMirror(input.description)
    /\ (done /\ AbsoluteOffMirror(input.description))
          => output = "rss_img" /\ events = <<>>
    /\ (done /\ ~AbsoluteOffMirror(input.description)
              /\ input.net.first \in {"http_404", "transport"})
          => output = "None" /\ Len(Gets) = 1

\* C13: when the process dies during save_last_tweets, the file on disk is
\* the whole file of before the call or the whole file the call writes,
\* never an empty or partial one, and a load then returns every id that was
\* in the file before, unless the file written is on disk.
CrashLeavesOldOrNew ==
    at = "crashed" =>
        \/ output = input.file
        \/ output \in {saved.file : saved \in save_last_tweets(input.tweet_ids, {})}

\* C14: get_latest_tweets returns the empty list and raises nothing when no
\* instance was accepted, when the retrieval from the instance selected fails
\* in transport or with an error status, and when the document retrieved
\* with success does not parse.
FetchFailureIsEmpty ==
    (done /\ \/ \A i \in DOMAIN input.probe : input.probe[i] # "xml_200"
             \/ input.feed \in {"transport", "status_503", "html_200"})
    => output = [raised |-> "None", tweets |-> <<>>]

\* an instance was accepted, and its answer to the retrieval, with status
\* 200, did not parse: nothing is returned of the posts upstream
FetchFailureIsEmptyWitness ==
    /\ done
    /\ input.probe[1] = "status_503" /\ input.probe[2] = "xml_200"
    /\ input.feed = "html_200"
    /\ Len(input.items) = max_tweets
    /\ output.raised = "None" /\ output.tweets = <<>>

\* C15: when the GET that verifies the image of a tweet is answered by a
\* status other than 2xx, or fails in transport, the embed carries no image,
\* and the call goes on as for a tweet without image: the POST is made and
\* the webhook's status returned.
MediaSuppressed ==
    (done /\ input.webhook_set /\ input.tweet.tweet_image # "None"
          /\ input.net.img \in {404, 500, TransportError})
    => LET plain == send_to_discord(TRUE,
                       [input.tweet EXCEPT !.tweet_image = "None"], input.net)
       IN /\ ~output.image
          /\ output = plain
          /\ (input.tweet.tweet_timestamp # "garbage"
                 /\ input.net.post # TransportError)
               => /\ output.posted /\ output.raised = "None"
                  /\ output.status = input.net.post

\* the image could not be fetched at all, and the tweet was delivered
\* without it
MediaSuppressedWitness ==
    /\ done /\ input.webhook_set
    /\ input.tweet.tweet_image = "og_img" /\ input.net.img = TransportError
    /\ ~output.image /\ output.posted /\ output.status = Delivered

\* C18: a tweet whose id is not empty and was in the account's ledger when
\* the username's turn loaded it, or got status 204 earlier in the turn, is
\* not passed to send_to_discord in that turn.
DedupFilter ==
    [][Len(calls') = Len(calls) + 1
        => LET tweet_id == calls'[Len(calls')] IN
           tweet_id # EmptyId
               => tweet_id \notin turn.loaded /\ tweet_id \notin turn.posted]_vars

\* the feed lists the newer post twice and the older once; the older was
\* loaded from the ledger and passed over, the newer was sent once, got
\* status 204, and was passed over the second time
DedupFilterWitness ==
    /\ AtEnd /\ Len(tweets) = 3
    /\ tweets[1].tweet_id = tweets[2].tweet_id
    /\ tweets[3].tweet_id \in turn.loaded \ {EmptyId}
    /\ calls = <<tweets[1].tweet_id>>
    /\ tweets[1].tweet_id \in turn.posted

\* C19: whenever send_to_discord is called, the account's ledger file
\* holds every id recorded for the account so far, as long as no more than
\* 50 were recorded; beyond that it holds 50 of them.
PersistedBeforeNextSend ==
    [][Len(calls') = Len(calls) + 1
        => LET ids == Range(recorded[username])
               ledger == Lines(file[username])
           IN IF Cardinality(ids) <= LedgerCap THEN ledger = ids
              ELSE ledger \subseteq ids /\ Cardinality(ledger) = LedgerCap]_vars

\* C20: for every set of at most 50 ids, load_last_tweets of the file that
\* save_last_tweets wrote returns that set; for the empty set it returns the
\* empty set.
FlushLoadRoundTrip ==
    (done /\ Cardinality(input) <= 50) => load_last_tweets(output) = input

====
